---- MODULE Spec2Model ----
(***************************************************************************)
(* State machine of the DAO canister (icp_rust_boilerplate_backend/lib.rs). *)
(* The three stable maps, the id counter and the host clock are the state; *)
(* every exported update/query is one atomic action (one message).         *)
(***************************************************************************)
EXTENDS Integers, Sequences, FiniteSets, TLC

(* ------------------------------ bounds --------------------------------- *)
\* number of distinct caller identities
NumPrincipals == 2
\* ids the counter may hand out before create operations are cut off
MaxId == 3
\* last value of the host clock
MaxTime == 2

(* ------------------------- program constants --------------------------- *)
\* the voting window, 7 * 24 * 60 * 60 * 1_000_000_000 ns; the clock of the
\* model counts in units of one window
Week == 1
\* width of usize, the type of Vec::len(); the model keeps vote counts far
\* below 2^UsizeBits, so only the wrap-around itself matters
UsizeBits == 16

Principals == 1..NumPrincipals
Ids == 0..MaxId
\* Option::None of owner/author (Option<Principal>)
NoPrincipal == 0

\* payloads a caller may send (DaoPayload, ProposalPayload, CommentPayload)
DaoPayloads ==
    { [name |-> "n1", description |-> "d1", avatar |-> "a1"],
      [name |-> "n2", description |-> "d2", avatar |-> "a2"] }
ProposalPayloads ==
    { [title |-> "t1", details |-> "d1", amount_requested |-> 1],
      [title |-> "t2", details |-> "d2", amount_requested |-> 2] }
CommentContents == {"c1", "c2"}

\* The records leave out the timestamps the program only ever writes
\* (Dao.created_at, Comment.created_at and every updated_at): no code path
\* reads them.  Proposal.created_at and Proposal.deadline are kept.
VARIABLES
    id_counter,     \* ID_COUNTER
    daos,           \* DAO_STORAGE: id -> Dao
    proposals,      \* PROPOSAL_STORAGE: id -> Proposal
    comments,       \* COMMENT_STORAGE: id -> Comment
    time,           \* ic_cdk::api::time()
    last            \* the last message: operation and result

vars == <<id_counter, daos, proposals, comments, time, last>>
stores == <<id_counter, daos, proposals, comments>>

(* ------------------------------ helpers -------------------------------- *)
\* StableBTreeMap::insert / remove / get().is_some()
Insert(map, k, v) == [x \in (DOMAIN map) \cup {k} |-> IF x = k THEN v ELSE map[x]]
Remove(map, k) == [x \in (DOMAIN map) \ {k} |-> map[x]]
Has(map, k) == k \in DOMAIN map
EmptyMap == [x \in {} |-> {}]

\* the keys of a map in ascending order, as StableBTreeMap::iter() visits them
RECURSIVE SetToSeq(_)
SetToSeq(S) ==
    IF S = {} THEN <<>>
    ELSE LET m == CHOOSE x \in S : \A y \in S : x <= y
         IN  <<m>> \o SetToSeq(S \ {m})

\* StableBTreeMap::iter().collect(): the stored values in key order
Values(map) == LET keys == SetToSeq(DOMAIN map) IN [i \in 1..Len(keys) |-> map[keys[i]]]

\* Vec::contains, Vec::retain(|x| *x != v)
Contains(s, v) == \E i \in 1..Len(s) : s[i] = v
Retain(s, v) == SelectSeq(s, LAMBDA x : x # v)

\* Principal::to_string: the textual form, here the base-32 digits of the
\* identity
PrincipalText(p) == <<p \div 32, p % 32>>

\* usize subtraction without overflow checks
UsizeMod == 2 ^ UsizeBits
WrappingSub(a, b) == (a - b + UsizeMod) % UsizeMod

Errors == {"NotFound", "NotAMember", "HasVoted", "CantVoteYours", "CantLikeYours",
           "CantEditProposal", "PermissionError", "DeadlineExceeded",
           "DeadlineNotExceeded"}
IsErr(r) == r \in Errors

\* what the last message was and what it returned: Ok(value) or Err(result);
\* caller and arguments are the parameters of the action that took the step
NoValue == [none |-> TRUE]
\* Ok(Vec<..>): the returned list
Items(s) == [items |-> s]
Call(op, r, v) == [op |-> op, result |-> r, value |-> v]

\* the deadline test as the function's name reads: true while time has not
\* gone past the deadline
is_deadline_not_reaached_as_named(deadline) == time <= deadline

\* the deadline test off by one: the deadline instant counts as passed
is_deadline_not_reaached_inclusive(deadline) == time >= deadline

\* fn is_deadline_not_reaached(deadline) { time() > deadline }
is_deadline_not_reaached(deadline) == time > deadline

\* fn _is_user_part_of_dao(id) -> Option<bool>: TRUE models Some(true), FALSE None
_is_user_part_of_dao(c, id) ==
    IF Has(daos, id)
    THEN daos[id].owner = c \/ Contains(daos[id].members, c)
    ELSE FALSE

(* ------------------------------- Init ---------------------------------- *)
Init ==
    /\ id_counter = 0
    /\ daos = EmptyMap
    /\ proposals = EmptyMap
    /\ comments = EmptyMap
    /\ time = 0
    /\ last = Call("init", "Ok", NoValue)

\* the host clock advances between messages
Tick ==
    /\ time < MaxTime
    /\ time' = time + 1
    /\ last' = Call("tick", "Ok", NoValue)
    /\ UNCHANGED stores

(* --------------------------- DAO functions ----------------------------- *)
\* what get_user_daos answers in the current state
get_user_daos_result(c) ==
    IF DOMAIN daos = {}
    THEN Call("get_user_daos", "NotFound", NoValue)
    ELSE Call("get_user_daos", "Ok",
              Items(SelectSeq(Values(daos),
                              LAMBDA dao : dao.owner = c \/ Contains(dao.members, c))))

get_user_daos(c) ==
    /\ last' = get_user_daos_result(c)
    /\ UNCHANGED <<stores, time>>

get_dao(c, id) ==
    /\ last' = IF _is_user_part_of_dao(c, id)
               THEN (IF Has(daos, id)
                     THEN Call("get_dao", "Ok", daos[id])
                     ELSE Call("get_dao", "NotFound", NoValue))
               ELSE Call("get_dao", "NotAMember", NoValue)
    /\ UNCHANGED <<stores, time>>

\* create_dao that lists the creating identity as a member
create_dao_owner_as_member(c, payload) ==
    /\ id_counter < MaxId
    /\ id_counter' = id_counter + 1
    /\ daos' = Insert(daos, id_counter,
                      [id |-> id_counter, name |-> payload.name, description |-> payload.description,
                       avatar |-> payload.avatar, owner |-> c,
                       members |-> <<c>>, proposals |-> <<>>])
    /\ last' = Call("create_dao", "Ok", daos'[id_counter])
    /\ UNCHANGED <<proposals, comments, time>>

\* create_dao that takes the counter's value without advancing it
create_dao_no_increment(c, payload) ==
    /\ id_counter < MaxId
    /\ daos' = Insert(daos, id_counter,
                      [id |-> id_counter, name |-> payload.name, description |-> payload.description,
                       avatar |-> payload.avatar, owner |-> c,
                       members |-> <<>>, proposals |-> <<>>])
    /\ last' = Call("create_dao", "Ok", daos'[id_counter])
    /\ UNCHANGED <<id_counter, proposals, comments, time>>

create_dao(c, payload) ==
    /\ id_counter < MaxId
    /\ id_counter' = id_counter + 1
    /\ daos' = Insert(daos, id_counter,
                      [id |-> id_counter, name |-> payload.name, description |-> payload.description,
                       avatar |-> payload.avatar, owner |-> c,
                       members |-> <<>>, proposals |-> <<>>])
    /\ last' = Call("create_dao", "Ok", daos'[id_counter])
    /\ UNCHANGED <<proposals, comments, time>>

\* update_dao open to every caller and making the caller the owner
update_dao_takes_ownership(c, id, payload) ==
    IF Has(daos, id)
    THEN /\ daos' = Insert(daos, id,
                       [daos[id] EXCEPT !.name = payload.name,
                                        !.description = payload.description,
                                        !.avatar = payload.avatar,
                                        !.owner = c])
         /\ last' = Call("update_dao", "Ok", daos'[id])
         /\ UNCHANGED <<id_counter, proposals, comments, time>>
    ELSE /\ last' = Call("update_dao", "NotFound", NoValue)
         /\ UNCHANGED <<stores, time>>

update_dao(c, id, payload) ==
    IF Has(daos, id)
    THEN IF daos[id].owner # NoPrincipal /\ daos[id].owner # c
         THEN /\ last' = Call("update_dao", "PermissionError", NoValue)
              /\ UNCHANGED <<stores, time>>
         ELSE /\ daos' = Insert(daos, id,
                            [daos[id] EXCEPT !.name = payload.name,
                                             !.description = payload.description,
                                             !.avatar = payload.avatar])
              /\ last' = Call("update_dao", "Ok", daos'[id])
              /\ UNCHANGED <<id_counter, proposals, comments, time>>
    ELSE /\ last' = Call("update_dao", "NotFound", NoValue)
         /\ UNCHANGED <<stores, time>>

\* the cascade stopping after the first id of the list
RemoveAll_first_only(map, ids) ==
    IF ids = <<>> THEN map ELSE Remove(map, Head(ids))

\* remove every id of the list from the map (iter().for_each(remove))
RECURSIVE RemoveAll(_, _)
RemoveAll(map, ids) ==
    IF ids = <<>> THEN map ELSE RemoveAll(Remove(map, Head(ids)), Tail(ids))

\* the entry is taken out of DAO_STORAGE before the owner is compared
delete_dao(c, id) ==
    IF Has(daos, id)
    THEN IF daos[id].owner # NoPrincipal /\ daos[id].owner # c
         THEN /\ daos' = Remove(daos, id)
              /\ last' = Call("delete_dao", "PermissionError", NoValue)
              /\ UNCHANGED <<id_counter, proposals, comments, time>>
         ELSE /\ daos' = Remove(daos, id)
              /\ proposals' = RemoveAll(proposals, daos[id].proposals)
              /\ last' = Call("delete_dao", "Ok", daos[id])
              /\ UNCHANGED <<id_counter, comments, time>>
    ELSE /\ last' = Call("delete_dao", "NotFound", NoValue)
         /\ UNCHANGED <<stores, time>>

(* ------------------------- proposal functions -------------------------- *)
\* what get_proposal answers in the current state
get_proposal_result(c, id) ==
    IF Has(proposals, id)
    THEN (IF _is_user_part_of_dao(c, proposals[id].dao_id)
          THEN Call("get_proposal", "Ok", proposals[id])
          ELSE Call("get_proposal", "NotAMember", NoValue))
    ELSE Call("get_proposal", "NotFound", NoValue)

get_proposal(c, id) ==
    /\ last' = get_proposal_result(c, id)
    /\ UNCHANGED <<stores, time>>

\* what get_all_proposals answers in the current state
get_all_proposals_result(c, dao_id) ==
    IF _is_user_part_of_dao(c, dao_id)
    THEN IF Len(Values(proposals)) = 0
         THEN Call("get_all_proposals", "NotFound", NoValue)
         ELSE Call("get_all_proposals", "Ok",
                   Items(SelectSeq(Values(proposals),
                                   LAMBDA proposal : proposal.dao_id = dao_id)))
    ELSE Call("get_all_proposals", "NotAMember", NoValue)

get_all_proposals(c, dao_id) ==
    /\ last' = get_all_proposals_result(c, dao_id)
    /\ UNCHANGED <<stores, time>>

\* get_final_approved_proposals keeping the proposals whose deadline has not
\* passed
get_final_approved_proposals_result_not_passed(c, dao_id) ==
    IF _is_user_part_of_dao(c, dao_id)
    THEN IF Len(Values(proposals)) = 0
         THEN Call("get_final_approved_proposals", "NotFound", NoValue)
         ELSE Call("get_final_approved_proposals", "Ok",
                   Items(SelectSeq(Values(proposals),
                                   LAMBDA proposal :
                                       /\ proposal.is_approved
                                       /\ proposal.dao_id = dao_id
                                       /\ ~is_deadline_not_reaached(proposal.deadline))))
    ELSE Call("get_final_approved_proposals", "NotAMember", NoValue)

\* what get_final_approved_proposals answers in the current state
get_final_approved_proposals_result(c, dao_id) ==
    IF _is_user_part_of_dao(c, dao_id)
    THEN IF Len(Values(proposals)) = 0
         THEN Call("get_final_approved_proposals", "NotFound", NoValue)
         ELSE Call("get_final_approved_proposals", "Ok",
                   Items(SelectSeq(Values(proposals),
                                   LAMBDA proposal :
                                       /\ proposal.is_approved
                                       /\ proposal.dao_id = dao_id
                                       /\ is_deadline_not_reaached(proposal.deadline))))
    ELSE Call("get_final_approved_proposals", "NotAMember", NoValue)

get_final_approved_proposals(c, dao_id) ==
    /\ last' = get_final_approved_proposals_result(c, dao_id)
    /\ UNCHANGED <<stores, time>>

\* add_proposal with the deadline set to the time of creation
add_proposal_no_window(c, dao_id, payload) ==
    IF _is_user_part_of_dao(c, dao_id)
    THEN /\ id_counter < MaxId
         /\ id_counter' = id_counter + 1
         /\ daos' = IF Has(daos, dao_id)
                    THEN Insert(daos, dao_id,
                             [daos[dao_id] EXCEPT
                                 !.proposals = Append(@, id_counter)])
                    ELSE daos
         /\ proposals' = Insert(proposals, id_counter,
                            [id |-> id_counter, dao_id |-> dao_id,
                             title |-> payload.title,
                             details |-> payload.details,
                             amount_requested |-> payload.amount_requested,
                             owner |-> c, upvotes |-> <<>>, downvotes |-> <<>>,
                             is_approved |-> FALSE, created_at |-> time,
                             comments |-> <<>>, deadline |-> time])
         /\ last' = Call("add_proposal", "Ok", proposals'[id_counter])
         /\ UNCHANGED <<comments, time>>
    ELSE /\ last' = Call("add_proposal", "NotAMember", NoValue)
         /\ UNCHANGED <<stores, time>>

add_proposal(c, dao_id, payload) ==
    IF _is_user_part_of_dao(c, dao_id)
    THEN /\ id_counter < MaxId
         /\ id_counter' = id_counter + 1
         /\ daos' = IF Has(daos, dao_id)
                    THEN Insert(daos, dao_id,
                             [daos[dao_id] EXCEPT
                                 !.proposals = Append(@, id_counter)])
                    ELSE daos
         /\ proposals' = Insert(proposals, id_counter,
                            [id |-> id_counter, dao_id |-> dao_id,
                             title |-> payload.title,
                             details |-> payload.details,
                             amount_requested |-> payload.amount_requested,
                             owner |-> c, upvotes |-> <<>>, downvotes |-> <<>>,
                             is_approved |-> FALSE, created_at |-> time,
                             comments |-> <<>>, deadline |-> time + Week])
         /\ last' = Call("add_proposal", "Ok", proposals'[id_counter])
         /\ UNCHANGED <<comments, time>>
    ELSE /\ last' = Call("add_proposal", "NotAMember", NoValue)
         /\ UNCHANGED <<stores, time>>

\* update_proposal with the owner comparison left out
update_proposal_any_caller(c, id, payload) ==
    IF Has(proposals, id)
    THEN IF is_deadline_not_reaached(proposals[id].deadline)
         THEN /\ last' = Call("update_proposal", "DeadlineExceeded", NoValue)
              /\ UNCHANGED <<stores, time>>
         ELSE /\ proposals' = Insert(proposals, id,
                                 [proposals[id] EXCEPT
                                     !.title = payload.title,
                                     !.details = payload.details,
                                     !.amount_requested = payload.amount_requested])
              /\ last' = Call("update_proposal", "Ok", proposals'[id])
              /\ UNCHANGED <<id_counter, daos, comments, time>>
    ELSE /\ last' = Call("update_proposal", "NotFound", NoValue)
         /\ UNCHANGED <<stores, time>>

update_proposal(c, id, payload) ==
    IF Has(proposals, id)
    THEN IF proposals[id].owner # NoPrincipal /\ proposals[id].owner # c
         THEN /\ last' = Call("update_proposal", "PermissionError", NoValue)
              /\ UNCHANGED <<stores, time>>
         ELSE IF is_deadline_not_reaached(proposals[id].deadline)
         THEN /\ last' = Call("update_proposal", "DeadlineExceeded", NoValue)
              /\ UNCHANGED <<stores, time>>
         ELSE /\ proposals' = Insert(proposals, id,
                                 [proposals[id] EXCEPT
                                     !.title = payload.title,
                                     !.details = payload.details,
                                     !.amount_requested = payload.amount_requested])
              /\ last' = Call("update_proposal", "Ok", proposals'[id])
              /\ UNCHANGED <<id_counter, daos, comments, time>>
    ELSE /\ last' = Call("update_proposal", "NotFound", NoValue)
         /\ UNCHANGED <<stores, time>>

\* _check_if_can_vote with the deadline test left out
_check_if_can_vote_no_deadline_check(c, proposal, id) ==
    IF _is_user_part_of_dao(c, id)
    THEN IF proposal.owner # NoPrincipal /\ proposal.owner = c
         THEN "CantVoteYours"
         ELSE IF \E i \in 1..Len(proposal.upvotes) :
                    PrincipalText(proposal.upvotes[i]) = PrincipalText(c)
         THEN "HasVoted"
         ELSE IF \E i \in 1..Len(proposal.downvotes) :
                    PrincipalText(proposal.downvotes[i]) = PrincipalText(c)
         THEN "HasVoted"
         ELSE "Ok"
    ELSE "NotFound"

\* _check_if_can_vote with the look-up in downvotes left out
_check_if_can_vote_no_downvote_check(c, proposal, id) ==
    IF _is_user_part_of_dao(c, id)
    THEN IF proposal.owner # NoPrincipal /\ proposal.owner = c
         THEN "CantVoteYours"
         ELSE IF \E i \in 1..Len(proposal.upvotes) :
                    PrincipalText(proposal.upvotes[i]) = PrincipalText(c)
         THEN "HasVoted"
         ELSE IF is_deadline_not_reaached(proposal.deadline)
         THEN "DeadlineExceeded"
         ELSE "Ok"
    ELSE "NotFound"

\* fn _check_if_can_vote(proposal, id) -> Result<(), Error>
_check_if_can_vote(c, proposal, id) ==
    IF _is_user_part_of_dao(c, id)
    THEN IF proposal.owner # NoPrincipal /\ proposal.owner = c
         THEN "CantVoteYours"
         ELSE IF \E i \in 1..Len(proposal.upvotes) :
                    PrincipalText(proposal.upvotes[i]) = PrincipalText(c)
         THEN "HasVoted"
         ELSE IF \E i \in 1..Len(proposal.downvotes) :
                    PrincipalText(proposal.downvotes[i]) = PrincipalText(c)
         THEN "HasVoted"
         ELSE IF is_deadline_not_reaached(proposal.deadline)
         THEN "DeadlineExceeded"
         ELSE "Ok"
    ELSE "NotFound"

upvote(c, id) ==
    IF Has(proposals, id)
    THEN LET can_vote == _check_if_can_vote(c, proposals[id], proposals[id].dao_id) IN
         IF IsErr(can_vote)
         THEN /\ last' = Call("upvote", can_vote, NoValue)
              /\ UNCHANGED <<stores, time>>
         ELSE /\ proposals' = Insert(proposals, id,
                                 [proposals[id] EXCEPT !.upvotes = Append(@, c)])
              /\ last' = Call("upvote", "Ok", proposals'[id])
              /\ UNCHANGED <<id_counter, daos, comments, time>>
    ELSE /\ last' = Call("upvote", "NotFound", NoValue)
         /\ UNCHANGED <<stores, time>>

downvote(c, id) ==
    IF Has(proposals, id)
    THEN LET can_vote == _check_if_can_vote(c, proposals[id], proposals[id].dao_id) IN
         IF IsErr(can_vote)
         THEN /\ last' = Call("downvote", can_vote, NoValue)
              /\ UNCHANGED <<stores, time>>
         ELSE /\ proposals' = Insert(proposals, id,
                                 [proposals[id] EXCEPT !.downvotes = Append(@, c)])
              /\ last' = Call("downvote", "Ok", proposals'[id])
              /\ UNCHANGED <<id_counter, daos, comments, time>>
    ELSE /\ last' = Call("downvote", "NotFound", NoValue)
         /\ UNCHANGED <<stores, time>>

\* downvotes.len() - upvotes.len() on usize: the outcomes a build can produce.
\* With overflow checks a negative difference panics (the message traps and
\* the canister state is rolled back); without them it wraps around.
total_votes(proposal) ==
    LET d == Len(proposal.downvotes)
        u == Len(proposal.upvotes)
    IN  IF d >= u
        THEN { [panic |-> FALSE, value |-> d - u] }
        ELSE { [panic |-> TRUE, value |-> 0],
               [panic |-> FALSE, value |-> WrappingSub(d, u)] }

\* end_proposal_vote with the deadline looked at before the owner
end_proposal_vote_deadline_first(c, id) ==
    IF Has(proposals, id)
    THEN IF ~is_deadline_not_reaached(proposals[id].deadline)
         THEN /\ last' = Call("end_proposal_vote", "DeadlineNotExceeded", NoValue)
              /\ UNCHANGED <<stores, time>>
         ELSE IF proposals[id].owner # NoPrincipal /\ proposals[id].owner # c
         THEN /\ last' = Call("end_proposal_vote", "CantEditProposal", NoValue)
              /\ UNCHANGED <<stores, time>>
         ELSE \E t \in total_votes(proposals[id]) :
                IF t.panic
                THEN /\ last' = Call("end_proposal_vote", "Trap", NoValue)
                     /\ UNCHANGED <<stores, time>>
                ELSE /\ proposals' = Insert(proposals, id,
                                        [proposals[id] EXCEPT
                                            !.is_approved = (t.value > 0)])
                     /\ last' = Call("end_proposal_vote", "Ok", proposals'[id])
                     /\ UNCHANGED <<id_counter, daos, comments, time>>
    ELSE /\ last' = Call("end_proposal_vote", "NotFound", NoValue)
         /\ UNCHANGED <<stores, time>>

end_proposal_vote(c, id) ==
    IF Has(proposals, id)
    THEN IF proposals[id].owner # NoPrincipal /\ proposals[id].owner # c
         THEN /\ last' = Call("end_proposal_vote", "CantEditProposal", NoValue)
              /\ UNCHANGED <<stores, time>>
         ELSE IF ~is_deadline_not_reaached(proposals[id].deadline)
         THEN /\ last' = Call("end_proposal_vote", "DeadlineNotExceeded", NoValue)
              /\ UNCHANGED <<stores, time>>
         ELSE \E t \in total_votes(proposals[id]) :
                IF t.panic
                THEN /\ last' = Call("end_proposal_vote", "Trap", NoValue)
                     /\ UNCHANGED <<stores, time>>
                ELSE /\ proposals' = Insert(proposals, id,
                                        [proposals[id] EXCEPT
                                            !.is_approved = (t.value > 0)])
                     /\ last' = Call("end_proposal_vote", "Ok", proposals'[id])
                     /\ UNCHANGED <<id_counter, daos, comments, time>>
    ELSE /\ last' = Call("end_proposal_vote", "NotFound", NoValue)
         /\ UNCHANGED <<stores, time>>

\* delete_proposal that leaves the comments of the proposal in their store
delete_proposal_keeps_comments(c, id) ==
    IF Has(proposals, id)
    THEN LET proposal == proposals[id] IN
         IF proposal.owner # NoPrincipal /\ proposal.owner # c
         THEN /\ proposals' = Remove(proposals, id)
              /\ last' = Call("delete_proposal", "PermissionError", NoValue)
              /\ UNCHANGED <<id_counter, daos, comments, time>>
         ELSE IF is_deadline_not_reaached(proposal.deadline)
         THEN /\ proposals' = Remove(proposals, id)
              /\ last' = Call("delete_proposal", "DeadlineExceeded", NoValue)
              /\ UNCHANGED <<id_counter, daos, comments, time>>
         ELSE /\ proposals' = Remove(proposals, id)
              /\ daos' = IF Has(daos, proposal.dao_id)
                         THEN Insert(daos, proposal.dao_id,
                                  [daos[proposal.dao_id] EXCEPT
                                      !.proposals = Retain(@, id)])
                         ELSE daos
              /\ last' = Call("delete_proposal", "Ok", proposal)
              /\ UNCHANGED <<id_counter, comments, time>>
    ELSE /\ last' = Call("delete_proposal", "NotFound", NoValue)
         /\ UNCHANGED <<stores, time>>

\* the entry is taken out of PROPOSAL_STORAGE before owner and deadline are
\* looked at
delete_proposal(c, id) ==
    IF Has(proposals, id)
    THEN LET proposal == proposals[id] IN
         IF proposal.owner # NoPrincipal /\ proposal.owner # c
         THEN /\ proposals' = Remove(proposals, id)
              /\ last' = Call("delete_proposal", "PermissionError", NoValue)
              /\ UNCHANGED <<id_counter, daos, comments, time>>
         ELSE IF is_deadline_not_reaached(proposal.deadline)
         THEN /\ proposals' = Remove(proposals, id)
              /\ last' = Call("delete_proposal", "DeadlineExceeded", NoValue)
              /\ UNCHANGED <<id_counter, daos, comments, time>>
         ELSE /\ proposals' = Remove(proposals, id)
              /\ daos' = IF Has(daos, proposal.dao_id)
                         THEN Insert(daos, proposal.dao_id,
                                  [daos[proposal.dao_id] EXCEPT
                                      !.proposals = Retain(@, id)])
                         ELSE daos
              /\ comments' = RemoveAll(comments, proposal.comments)
              /\ last' = Call("delete_proposal", "Ok", proposal)
              /\ UNCHANGED <<id_counter, time>>
    ELSE /\ last' = Call("delete_proposal", "NotFound", NoValue)
         /\ UNCHANGED <<stores, time>>

(* -------------------------- comment functions -------------------------- *)
\* what get_all_comments_on_proposal answers in the current state
get_all_comments_on_proposal_result(c, proposal_id, dao_id) ==
    IF _is_user_part_of_dao(c, dao_id)
    THEN IF DOMAIN comments = {}
         THEN Call("get_all_comments_on_proposal", "NotFound", NoValue)
         ELSE Call("get_all_comments_on_proposal", "Ok",
                   Items(SelectSeq(Values(comments),
                                   LAMBDA comment : comment.proposal_id = proposal_id)))
    ELSE Call("get_all_comments_on_proposal", "NotAMember", NoValue)

get_all_comments_on_proposal(c, proposal_id, dao_id) ==
    /\ last' = get_all_comments_on_proposal_result(c, proposal_id, dao_id)
    /\ UNCHANGED <<stores, time>>

comment_on_post(c, proposal_id, content) ==
    IF Has(proposals, proposal_id)
    THEN IF _is_user_part_of_dao(c, proposals[proposal_id].dao_id)
         THEN /\ id_counter < MaxId
              /\ id_counter' = id_counter + 1
              /\ proposals' = Insert(proposals, proposal_id,
                                 [proposals[proposal_id] EXCEPT
                                     !.comments = Append(@, id_counter)])
              /\ comments' = Insert(comments, id_counter,
                                [id |-> id_counter, content |-> content,
                                 author |-> c, likes |-> <<>>,
                                 proposal_id |-> proposal_id])
              /\ last' = Call("comment_on_post", "Ok", comments'[id_counter])
              /\ UNCHANGED <<daos, time>>
         ELSE /\ last' = Call("comment_on_post", "NotAMember", NoValue)
              /\ UNCHANGED <<stores, time>>
    ELSE /\ last' = Call("comment_on_post", "NotAMember", NoValue)
         /\ UNCHANGED <<stores, time>>

update_comment(c, id, content) ==
    IF Has(comments, id)
    THEN IF comments[id].author # NoPrincipal /\ comments[id].author # c
         THEN /\ last' = Call("update_comment", "PermissionError", NoValue)
              /\ UNCHANGED <<stores, time>>
         ELSE /\ comments' = Insert(comments, id,
                                [comments[id] EXCEPT !.content = content])
              /\ last' = Call("update_comment", "Ok", comments'[id])
              /\ UNCHANGED <<id_counter, daos, proposals, time>>
    ELSE /\ last' = Call("update_comment", "NotFound", NoValue)
         /\ UNCHANGED <<stores, time>>

\* like_comment with the comparison with the author left out
like_comment_no_author_check(c, id, dao_id) ==
    IF Has(comments, id)
    THEN IF _is_user_part_of_dao(c, dao_id)
         THEN IF \E i \in 1..Len(comments[id].likes) : comments[id].likes[i] = c
              THEN /\ last' = Call("like_comment", "HasVoted", NoValue)
                   /\ UNCHANGED <<stores, time>>
              ELSE /\ comments' = Insert(comments, id,
                                     [comments[id] EXCEPT !.likes = Append(@, c)])
                   /\ last' = Call("like_comment", "Ok", comments'[id])
                   /\ UNCHANGED <<id_counter, daos, proposals, time>>
         ELSE /\ last' = Call("like_comment", "NotFound", NoValue)
              /\ UNCHANGED <<stores, time>>
    ELSE /\ last' = Call("like_comment", "NotFound", NoValue)
         /\ UNCHANGED <<stores, time>>

\* like_comment with the look-up in likes left out
like_comment_no_liked_check(c, id, dao_id) ==
    IF Has(comments, id)
    THEN IF _is_user_part_of_dao(c, dao_id)
         THEN IF comments[id].author # NoPrincipal /\ comments[id].author = c
              THEN /\ last' = Call("like_comment", "CantLikeYours", NoValue)
                   /\ UNCHANGED <<stores, time>>
              ELSE /\ comments' = Insert(comments, id,
                                     [comments[id] EXCEPT !.likes = Append(@, c)])
                   /\ last' = Call("like_comment", "Ok", comments'[id])
                   /\ UNCHANGED <<id_counter, daos, proposals, time>>
         ELSE /\ last' = Call("like_comment", "NotFound", NoValue)
              /\ UNCHANGED <<stores, time>>
    ELSE /\ last' = Call("like_comment", "NotFound", NoValue)
         /\ UNCHANGED <<stores, time>>

like_comment(c, id, dao_id) ==
    IF Has(comments, id)
    THEN IF _is_user_part_of_dao(c, dao_id)
         THEN IF comments[id].author # NoPrincipal /\ comments[id].author = c
              THEN /\ last' = Call("like_comment", "CantLikeYours", NoValue)
                   /\ UNCHANGED <<stores, time>>
              ELSE IF \E i \in 1..Len(comments[id].likes) : comments[id].likes[i] = c
              THEN /\ last' = Call("like_comment", "HasVoted", NoValue)
                   /\ UNCHANGED <<stores, time>>
              ELSE /\ comments' = Insert(comments, id,
                                     [comments[id] EXCEPT !.likes = Append(@, c)])
                   /\ last' = Call("like_comment", "Ok", comments'[id])
                   /\ UNCHANGED <<id_counter, daos, proposals, time>>
         ELSE /\ last' = Call("like_comment", "NotFound", NoValue)
              /\ UNCHANGED <<stores, time>>
    ELSE /\ last' = Call("like_comment", "NotFound", NoValue)
         /\ UNCHANGED <<stores, time>>

\* the entry is taken out of COMMENT_STORAGE before the author is compared
delete_comment(c, id) ==
    IF Has(comments, id)
    THEN LET comment == comments[id] IN
         IF comment.author # NoPrincipal /\ comment.author # c
         THEN /\ comments' = Remove(comments, id)
              /\ last' = Call("delete_comment", "PermissionError", NoValue)
              /\ UNCHANGED <<id_counter, daos, proposals, time>>
         ELSE /\ comments' = Remove(comments, id)
              /\ proposals' = IF Has(proposals, comment.proposal_id)
                              THEN Insert(proposals, comment.proposal_id,
                                       [proposals[comment.proposal_id] EXCEPT
                                           !.comments = Retain(@, id)])
                              ELSE proposals
              /\ last' = Call("delete_comment", "Ok", comment)
              /\ UNCHANGED <<id_counter, daos, time>>
    ELSE /\ last' = Call("delete_comment", "NotFound", NoValue)
         /\ UNCHANGED <<stores, time>>

(* ---------------------------- specification ---------------------------- *)
Next ==
    \/ Tick
    \/ \E c \in Principals : get_user_daos(c)
    \/ \E c \in Principals, id \in Ids : get_dao(c, id)
    \/ \E c \in Principals, p \in DaoPayloads : create_dao(c, p)
    \/ \E c \in Principals, id \in Ids, p \in DaoPayloads : update_dao(c, id, p)
    \/ \E c \in Principals, id \in Ids : delete_dao(c, id)
    \/ \E c \in Principals, id \in Ids : get_proposal(c, id)
    \/ \E c \in Principals, id \in Ids : get_all_proposals(c, id)
    \/ \E c \in Principals, id \in Ids : get_final_approved_proposals(c, id)
    \/ \E c \in Principals, id \in Ids, p \in ProposalPayloads : add_proposal(c, id, p)
    \/ \E c \in Principals, id \in Ids, p \in ProposalPayloads : update_proposal(c, id, p)
    \/ \E c \in Principals, id \in Ids : upvote(c, id)
    \/ \E c \in Principals, id \in Ids : downvote(c, id)
    \/ \E c \in Principals, id \in Ids : end_proposal_vote(c, id)
    \/ \E c \in Principals, id \in Ids : delete_proposal(c, id)
    \/ \E c \in Principals, id \in Ids, d \in Ids : get_all_comments_on_proposal(c, id, d)
    \/ \E c \in Principals, id \in Ids, t \in CommentContents : comment_on_post(c, id, t)
    \/ \E c \in Principals, id \in Ids, t \in CommentContents : update_comment(c, id, t)
    \/ \E c \in Principals, id \in Ids, d \in Ids : like_comment(c, id, d)
    \/ \E c \in Principals, id \in Ids : delete_comment(c, id)

\* the canister as installed: empty stores
Spec == Init /\ [][Next]_vars

(* --------------------- stores with members and votes ------------------- *)
\* No exported operation adds a member, so from the empty canister every
\* members list stays empty and no vote is ever accepted.  To exercise the
\* handlers on organizations that have members and on proposals that carry
\* votes, SpecStored starts them from stable memory that already holds one
\* organization (id 0) and one proposal in it (id 1): any owner, any listed
\* members, any proposer among them, and any votes the handlers could have
\* accepted (voters part of the organization, none twice, not the proposer).
StoredDaoAndProposal ==
    \E o \in {1} :      \* identities are only ever compared: any owner is like 1
    \E M \in SUBSET (Principals \ {o}) :
    \E po \in {o} \cup M :
    \E U \in SUBSET (({o} \cup M) \ {po}) :
    \E D \in SUBSET ((({o} \cup M) \ {po}) \ U) :
        /\ id_counter = 2
        /\ daos = Insert(EmptyMap, 0,
                     [id |-> 0, name |-> "n1", description |-> "d1",
                      avatar |-> "a1", owner |-> o, members |-> SetToSeq(M),
                      proposals |-> <<1>>])
        /\ proposals = Insert(EmptyMap, 1,
                          [id |-> 1, dao_id |-> 0, title |-> "t1", details |-> "d1",
                           amount_requested |-> 1, owner |-> po,
                           upvotes |-> SetToSeq(U), downvotes |-> SetToSeq(D),
                           is_approved |-> FALSE, created_at |-> 0,
                           comments |-> <<>>, deadline |-> 0 + Week])
        /\ comments = EmptyMap
        /\ time = 0
        /\ last = Call("init", "Ok", NoValue)

\* the empty canister, or one that holds such an organization and proposal
InitStored == Init \/ StoredDaoAndProposal

SpecStored == InitStored /\ [][Next]_vars

(* ------------------- stores with a comment and two owners -------------- *)
\* like_comment and get_all_comments_on_proposal take the organization id
\* from the caller.  To exercise them with an organization other than the
\* comment's, SpecCommented also starts from the stores left by four creates:
\* identity 1 created organization 0, identity 2 created organization 1,
\* identity 1 added proposal 2 to organization 0 and commented on it
\* (comment 3).  Organization 0 may list identity 2 as a member, and the
\* comment may already carry the like of identity 2.
StoredTwoDaosAndComment ==
    \E M \in SUBSET {2} :
    \E L \in SUBSET {2} :
        /\ id_counter = 4
        /\ daos = Insert(Insert(EmptyMap, 0,
                     [id |-> 0, name |-> "n1", description |-> "d1",
                      avatar |-> "a1", owner |-> 1, members |-> SetToSeq(M),
                      proposals |-> <<2>>]), 1,
                     [id |-> 1, name |-> "n2", description |-> "d2",
                      avatar |-> "a2", owner |-> 2, members |-> <<>>,
                      proposals |-> <<>>])
        /\ proposals = Insert(EmptyMap, 2,
                          [id |-> 2, dao_id |-> 0, title |-> "t1", details |-> "d1",
                           amount_requested |-> 1, owner |-> 1,
                           upvotes |-> <<>>, downvotes |-> <<>>,
                           is_approved |-> FALSE, created_at |-> 0,
                           comments |-> <<3>>, deadline |-> 0 + Week])
        /\ comments = Insert(EmptyMap, 3,
                         [id |-> 3, content |-> "c1", author |-> 1,
                          likes |-> SetToSeq(L), proposal_id |-> 2])
        /\ time = 0
        /\ last = Call("init", "Ok", NoValue)

\* the empty canister, or one that holds these two organizations
InitCommented == Init \/ StoredTwoDaosAndComment

SpecCommented == InitCommented /\ [][Next]_vars

(* ======================================================================= *)
(*                               claims                                    *)
(* ======================================================================= *)
\* membership as the claims state it: the organization exists and the
\* identity is its owner or one of its listed members
IsMemberOf(c, d) ==
    /\ d \in DOMAIN daos
    /\ (daos[d].owner = c \/ \E i \in 1..Len(daos[d].members) : daos[d].members[i] = c)
InList(s, v) == \E i \in 1..Len(s) : s[i] = v

\* C1: in every state every stored proposal has no identity in both upvotes
\* and downvotes, no identity twice in either list, and its owner in neither
\* list.
C1_VotesExclusive ==
    \A p \in DOMAIN proposals :
        LET r == proposals[p] IN
        /\ \A i \in 1..Len(r.upvotes), j \in 1..Len(r.downvotes) :
              r.upvotes[i] # r.downvotes[j]
        /\ \A i, j \in 1..Len(r.upvotes) : r.upvotes[i] = r.upvotes[j] => i = j
        /\ \A i, j \in 1..Len(r.downvotes) : r.downvotes[i] = r.downvotes[j] => i = j
        /\ ~InList(r.upvotes, r.owner)
        /\ ~InList(r.downvotes, r.owner)

\* a vote has just been accepted and recorded
C1_Witness ==
    /\ last.op \in {"upvote", "downvote"}
    /\ last.result = "Ok"
    /\ \E p \in DOMAIN proposals :
          Len(proposals[p].upvotes) + Len(proposals[p].downvotes) >= 1

\* C2: an operation that returns an error leaves the organization, proposal
\* and comment stores and the id counter exactly as they were.
C2_ErrorLeavesState ==
    [][IsErr(last'.result) => UNCHANGED <<id_counter, daos, proposals, comments>>]_vars

\* C3: an organization, a proposal or a comment leaves its store only in a
\* delete called by its own owner/author or in the cascade of a delete called
\* by the owner of its parent.
C3_OnlyOwnerRemoves ==
    [][ /\ \A d \in (DOMAIN daos) \ (DOMAIN daos') :
              \E c \in Principals : c = daos[d].owner /\ delete_dao(c, d)
        /\ \A p \in (DOMAIN proposals) \ (DOMAIN proposals') :
              \/ \E c \in Principals : c = proposals[p].owner /\ delete_proposal(c, p)
              \/ \E c \in Principals :
                    /\ Has(daos, proposals[p].dao_id)
                    /\ c = daos[proposals[p].dao_id].owner
                    /\ delete_dao(c, proposals[p].dao_id)
        /\ \A k \in (DOMAIN comments) \ (DOMAIN comments') :
              \/ \E c \in Principals : c = comments[k].author /\ delete_comment(c, k)
              \/ \E c \in Principals :
                    /\ Has(proposals, comments[k].proposal_id)
                    /\ c = proposals[comments[k].proposal_id].owner
                    /\ delete_proposal(c, comments[k].proposal_id)
      ]_vars

\* the vote lists of a stored proposal before and after a step
VotesUnchanged(id) ==
    /\ id \in DOMAIN proposals'
    /\ proposals'[id].upvotes = proposals[id].upvotes
    /\ proposals'[id].downvotes = proposals[id].downvotes
HasVotedOn(c, id) ==
    InList(proposals[id].upvotes, c) \/ InList(proposals[id].downvotes, c)
\* the caller passes every check that comes before the deadline check
MayVote(c, id) ==
    /\ IsMemberOf(c, proposals[id].dao_id)
    /\ c # proposals[id].owner
    /\ ~HasVotedOn(c, id)

\* C4 as stated: a vote after the deadline fails with DeadlineExceeded for
\* every caller and changes no vote list; a vote at or before the deadline by
\* a non-owner member who has not voted succeeds and adds exactly the caller
\* to the chosen list.
C4_Original ==
    [][last'.op \in {"upvote", "downvote"} =>
       \A c \in Principals, id \in DOMAIN proposals :
        /\ (upvote(c, id) \/ downvote(c, id)) /\ time > proposals[id].deadline
              => last'.result = "DeadlineExceeded" /\ VotesUnchanged(id)
        /\ upvote(c, id) /\ time <= proposals[id].deadline /\ MayVote(c, id)
              => /\ last'.result = "Ok"
                 /\ proposals' = Insert(proposals, id,
                       [proposals[id] EXCEPT !.upvotes = Append(@, c)])
        /\ downvote(c, id) /\ time <= proposals[id].deadline /\ MayVote(c, id)
              => /\ last'.result = "Ok"
                 /\ proposals' = Insert(proposals, id,
                       [proposals[id] EXCEPT !.downvotes = Append(@, c)])
      ]_vars

\* C4 amended: a vote after the deadline always fails and changes no vote
\* list, and the error is DeadlineExceeded exactly when the caller passes the
\* earlier checks (member, not the owner, not yet voted); a vote at or before
\* the deadline by such a caller succeeds and adds exactly the caller to the
\* chosen list.
C4_VoteDeadline ==
    [][last'.op \in {"upvote", "downvote"} =>
       \A c \in Principals, id \in DOMAIN proposals :
        /\ (upvote(c, id) \/ downvote(c, id)) /\ time > proposals[id].deadline
              => /\ IsErr(last'.result)
                 /\ VotesUnchanged(id)
                 /\ (last'.result = "DeadlineExceeded") <=> MayVote(c, id)
        /\ upvote(c, id) /\ time <= proposals[id].deadline /\ MayVote(c, id)
              => /\ last'.result = "Ok"
                 /\ proposals' = Insert(proposals, id,
                       [proposals[id] EXCEPT !.upvotes = Append(@, c)])
        /\ downvote(c, id) /\ time <= proposals[id].deadline /\ MayVote(c, id)
              => /\ last'.result = "Ok"
                 /\ proposals' = Insert(proposals, id,
                       [proposals[id] EXCEPT !.downvotes = Append(@, c)])
      ]_vars

\* a vote was accepted at the very deadline (time = deadline)
C4_Witness ==
    /\ last.op \in {"upvote", "downvote"}
    /\ last.result = "Ok"
    /\ time = last.value.deadline

\* C5: on an existing proposal a vote reports the first failing check:
\* NotAMember for a non-member, else CantVoteYours for the owner, else
\* HasVoted for a caller already in either list, else DeadlineExceeded once
\* the deadline has passed.
C5_VoteCheckOrder ==
    [][last'.op \in {"upvote", "downvote"} =>
       \A c \in Principals, id \in DOMAIN proposals :
        (upvote(c, id) \/ downvote(c, id)) =>
            last'.result =
                IF ~IsMemberOf(c, proposals[id].dao_id) THEN "NotAMember"
                ELSE IF c = proposals[id].owner THEN "CantVoteYours"
                ELSE IF HasVotedOn(c, id) THEN "HasVoted"
                ELSE IF time > proposals[id].deadline THEN "DeadlineExceeded"
                ELSE "Ok"
      ]_vars

\* C6 as stated: end_proposal_vote on a stored proposal at or before the
\* deadline fails with DeadlineNotExceeded, and after the deadline by a
\* caller other than the owner fails with PermissionError; is_approved stays.
C6_Original ==
    [][last'.op = "end_proposal_vote" =>
       \A c \in Principals, id \in DOMAIN proposals :
        end_proposal_vote(c, id) =>
          /\ time <= proposals[id].deadline
                => last'.result = "DeadlineNotExceeded" /\ proposals' = proposals
          /\ time > proposals[id].deadline /\ c # proposals[id].owner
                => last'.result = "PermissionError" /\ proposals' = proposals
      ]_vars

\* C6 amended: end_proposal_vote on a stored proposal by a caller other than
\* its owner fails with CantEditProposal whatever the clock, and by its owner
\* at or before the deadline fails with DeadlineNotExceeded; in both cases the
\* proposal (is_approved included) is unchanged.
C6_EndVoteErrors ==
    [][last'.op = "end_proposal_vote" =>
       \A c \in Principals, id \in DOMAIN proposals :
        end_proposal_vote(c, id) =>
          /\ c # proposals[id].owner
                => last'.result = "CantEditProposal" /\ proposals' = proposals
          /\ c = proposals[id].owner /\ time <= proposals[id].deadline
                => last'.result = "DeadlineNotExceeded" /\ proposals' = proposals
      ]_vars

\* a caller was turned away with CantEditProposal while a stored proposal's
\* deadline had not passed
C6_Witness ==
    /\ last.op = "end_proposal_vote"
    /\ last.result = "CantEditProposal"
    /\ \E p \in DOMAIN proposals : time <= proposals[p].deadline

C9_UpdateProposal ==
    [][ /\ last'.op = "update_proposal" =>
             \A c \in Principals, id \in DOMAIN proposals, pl \in ProposalPayloads :
               update_proposal(c, id, pl) =>
                 /\ c # proposals[id].owner
                       => last'.result = "PermissionError" /\ proposals' = proposals
                 /\ c = proposals[id].owner /\ time > proposals[id].deadline
                       => last'.result = "DeadlineExceeded" /\ proposals' = proposals
                 /\ c = proposals[id].owner /\ time <= proposals[id].deadline
                       => /\ last'.result = "Ok"
                          /\ proposals' = Insert(proposals, id,
                                [proposals[id] EXCEPT
                                    !.title = pl.title,
                                    !.details = pl.details,
                                    !.amount_requested = pl.amount_requested])
        /\ \A id \in (DOMAIN proposals) \cap (DOMAIN proposals') :
              \/ /\ proposals'[id].title = proposals[id].title
                 /\ proposals'[id].details = proposals[id].details
                 /\ proposals'[id].amount_requested = proposals[id].amount_requested
              \/ /\ last'.op = "update_proposal"
                 /\ last'.result = "Ok"
                 /\ time <= proposals[id].deadline
                 /\ \E pl \in ProposalPayloads :
                       update_proposal(proposals[id].owner, id, pl)
      ]_vars

\* an owner's update went through on a proposal and replaced its title
C9_Witness ==
    /\ last.op = "update_proposal"
    /\ last.result = "Ok"
    /\ last.value.title = "t2"
    /\ last.value.id \in DOMAIN proposals
    /\ proposals[last.value.id] = last.value
    /\ time <= last.value.deadline

\* C10: after a successful delete_dao(id) no proposal with dao_id = id is
\* left in the proposal store, and get_proposal on each of the proposals the
\* organization had answers NotFound to every caller.
C10_DeleteDaoCascade ==
    [][last'.op = "delete_dao" /\ last'.result = "Ok" =>
       \A c \in Principals, id \in DOMAIN daos :
        delete_dao(c, id) =>
          /\ \A p \in DOMAIN proposals' : proposals'[p].dao_id # id
          /\ \A p \in DOMAIN proposals :
                proposals[p].dao_id = id =>
                    \A c2 \in Principals :
                        get_proposal_result(c2, p)'.result = "NotFound"
      ]_vars

\* an organization that listed two proposals has just been deleted
C10_Witness ==
    /\ last.op = "delete_dao"
    /\ last.result = "Ok"
    /\ Len(last.value.proposals) >= 2

\* the stored comments attached to a proposal id
CommentsOf(cs, id) == {k \in DOMAIN cs : cs[k].proposal_id = id}

\* C11: right after a successful delete_proposal(id) no stored comment has
\* proposal_id = id and get_all_comments_on_proposal for id lists none to any
\* caller under any organization id; and a proposal id that is absent with no
\* comment attached never gets one, so this stays so afterwards.
C11_DeleteProposalCascade ==
    [][ /\ last'.op = "delete_proposal" /\ last'.result = "Ok" =>
             \A c \in Principals, id \in DOMAIN proposals :
               delete_proposal(c, id) =>
                 /\ CommentsOf(comments', id) = {}
                 /\ \A c2 \in Principals, d \in Ids :
                       LET r == get_all_comments_on_proposal_result(c2, id, d)' IN
                       r.result = "Ok" => r.value.items = <<>>
        /\ \A id \in Ids :
              id \notin DOMAIN proposals /\ CommentsOf(comments, id) = {}
                  => CommentsOf(comments', id) = {}
      ]_vars

\* a proposal that carried a comment has just been deleted by its owner
C11_Witness ==
    /\ last.op = "delete_proposal"
    /\ last.result = "Ok"
    /\ Len(last.value.comments) >= 1
    /\ last.value.comments[1] \notin DOMAIN comments

\* C12: like_comment on a stored comment by a caller who is part of the
\* organization named in the call fails with CantLikeYours when the caller is
\* the comment's author, else fails with HasVoted when the caller is already
\* in likes, both leaving the comment store as it was; otherwise it succeeds
\* and appends the caller once to likes, changing nothing else.
C12_LikeComment ==
    [][last'.op = "like_comment" =>
       \A c \in Principals, id \in DOMAIN comments, d \in Ids :
        like_comment(c, id, d) /\ IsMemberOf(c, d) =>
          IF comments[id].author = c
          THEN last'.result = "CantLikeYours" /\ comments' = comments
          ELSE IF InList(comments[id].likes, c)
          THEN last'.result = "HasVoted" /\ comments' = comments
          ELSE /\ last'.result = "Ok"
               /\ comments' = Insert(comments, id,
                     [comments[id] EXCEPT !.likes = Append(@, c)])
               /\ Len(SelectSeq(comments'[id].likes, LAMBDA x : x = c)) = 1
      ]_vars

\* a second like by the same identity has just been turned away
C12_Witness ==
    /\ last.op = "like_comment"
    /\ last.result = "HasVoted"
    /\ \E k \in DOMAIN comments : Len(comments[k].likes) = 1

\* a step of the canister after which identity b is listed as a member of
\* organization d
MemberAdded(d, b) ==
    /\ Next
    /\ d \in DOMAIN daos'
    /\ InList(daos'[d].members, b)

\* C13: the scenario "A creates organization O, A adds member B, B creates
\* proposal P in O, A upvotes P, B's own upvote fails with CantVoteYours" can
\* happen.  Its second step is what is stated here: for a stored organization
\* and an identity that is not part of it, some exported operation is able to
\* list that identity as a member.
C13_MemberScenario ==
    \A d \in DOMAIN daos :
        \A b \in Principals :
            ~IsMemberOf(b, d) => ENABLED MemberAdded(d, b)

\* every stored entity sits under its own id, below the counter, and no id is
\* the key of entities of two kinds
IdsBelow(n, ds, ps, cs) ==
    /\ \A k \in DOMAIN ds : ds[k].id = k /\ k < n
    /\ \A k \in DOMAIN ps : ps[k].id = k /\ k < n
    /\ \A k \in DOMAIN cs : cs[k].id = k /\ k < n
    /\ (DOMAIN ds) \cap (DOMAIN ps) = {}
    /\ (DOMAIN ds) \cap (DOMAIN cs) = {}
    /\ (DOMAIN ps) \cap (DOMAIN cs) = {}

\* C14: the ids handed out so far are 0 .. id_counter - 1: the counter never
\* goes back (deletions included), a successful create_dao, add_proposal or
\* comment_on_post hands out the counter's value and advances it by one, so a
\* new id is above every earlier one; no other step moves the counter; and
\* the stored entities, of all three kinds together, have distinct ids.
C14_IdsIncrease ==
    [][ /\ id_counter' >= id_counter
        /\ IF last'.op \in {"create_dao", "add_proposal", "comment_on_post"}
              /\ last'.result = "Ok"
           THEN /\ last'.value.id = id_counter
                /\ id_counter' = id_counter + 1
           ELSE id_counter' = id_counter
        /\ IdsBelow(id_counter, daos, proposals, comments)
        /\ IdsBelow(id_counter', daos', proposals', comments')
      ]_vars

\* an id has just been handed out after an entity had been deleted
C14_Witness ==
    /\ last.op \in {"create_dao", "add_proposal", "comment_on_post"}
    /\ last.result = "Ok"
    /\ last.value.id = id_counter - 1
    /\ \E k \in 0..(id_counter - 2) :
          k \notin (DOMAIN daos) \cup (DOMAIN proposals) \cup (DOMAIN comments)

\* C15: get_dao(id) answers NotFound when no organization is stored under
\* id, NotAMember when the organization is stored and the caller is neither
\* its owner nor a listed member, and the organization otherwise.
C15_GetDao ==
    [][last'.op = "get_dao" =>
       \A c \in Principals, id \in Ids :
        get_dao(c, id) =>
          IF id \notin DOMAIN daos THEN last'.result = "NotFound"
          ELSE IF ~IsMemberOf(c, id) THEN last'.result = "NotAMember"
          ELSE last'.result = "Ok" /\ last'.value = daos[id]
      ]_vars

\* the elements of a list, and a list without repetition
Range(s) == {s[i] : i \in 1..Len(s)}
NoRepeat(s) == \A i, j \in 1..Len(s) : s[i] = s[j] => i = j

\* C16 as stated: for a caller who is part of organization d,
\* get_final_approved_proposals(d) returns exactly the stored proposals with
\* dao_id = d, is_approved = TRUE and a deadline that has not passed
\* (now <= deadline), whatever the proposal store holds.
C16_Original ==
    [][last'.op = "get_final_approved_proposals" =>
       \A c \in Principals, d \in Ids :
        get_final_approved_proposals(c, d) /\ IsMemberOf(c, d) =>
          /\ last'.result = "Ok"
          /\ NoRepeat(last'.value.items)
          /\ Range(last'.value.items) =
                {proposals[p] : p \in {q \in DOMAIN proposals :
                                         /\ proposals[q].dao_id = d
                                         /\ proposals[q].is_approved
                                         /\ time <= proposals[q].deadline}}
      ]_vars

\* C16 amended: for a caller who is part of organization d,
\* get_final_approved_proposals(d) fails with NotFound when the proposal store
\* is empty, and otherwise returns, each once, exactly the stored proposals
\* with dao_id = d, is_approved = TRUE and a deadline that has passed
\* (now > deadline).
C16_FinalApproved ==
    [][last'.op = "get_final_approved_proposals" =>
       \A c \in Principals, d \in Ids :
        get_final_approved_proposals(c, d) /\ IsMemberOf(c, d) =>
          IF DOMAIN proposals = {}
          THEN last'.result = "NotFound"
          ELSE /\ last'.result = "Ok"
               /\ NoRepeat(last'.value.items)
               /\ Range(last'.value.items) =
                     {proposals[p] : p \in {q \in DOMAIN proposals :
                                              /\ proposals[q].dao_id = d
                                              /\ proposals[q].is_approved
                                              /\ time > proposals[q].deadline}}
      ]_vars

\* the query has just returned an approved proposal while the store also
\* holds a proposal of the organization that is not approved
C16_Witness ==
    /\ last.op = "get_final_approved_proposals"
    /\ last.result = "Ok"
    /\ Len(last.value.items) = 1
    /\ \E p \in DOMAIN proposals :
          /\ ~proposals[p].is_approved
          /\ proposals[p].dao_id = last.value.items[1].dao_id

\* organization d is stored and the identity is neither its owner nor one of
\* its listed members
Outsider(c, d) == d \in DOMAIN daos /\ ~IsMemberOf(c, d)
\* the step returned an error and left the stores and the counter alone
Rejected == IsErr(last'.result) /\ UNCHANGED stores

\* C17: a proposal-level or comment-level operation (get, list, create,
\* update, vote, end vote, like, delete) called by an identity that is not
\* part of the stored organization of the targeted proposal (for a comment:
\* of the comment's proposal) returns an error and changes nothing.
C17_MembershipGate ==
    [][last'.op \notin {"tick", "get_user_daos", "get_dao", "create_dao",
                        "update_dao", "delete_dao"} =>
       \A c \in Principals :
        /\ \A p \in DOMAIN proposals :
              Outsider(c, proposals[p].dao_id) /\
                ( \/ get_proposal(c, p)
                  \/ \E pl \in ProposalPayloads : update_proposal(c, p, pl)
                  \/ upvote(c, p)
                  \/ downvote(c, p)
                  \/ end_proposal_vote(c, p)
                  \/ delete_proposal(c, p)
                  \/ \E d \in Ids : get_all_comments_on_proposal(c, p, d)
                  \/ \E t \in CommentContents : comment_on_post(c, p, t) )
                => Rejected
        /\ \A d \in DOMAIN daos :
              Outsider(c, d) /\
                ( \/ get_all_proposals(c, d)
                  \/ get_final_approved_proposals(c, d)
                  \/ \E pl \in ProposalPayloads : add_proposal(c, d, pl) )
                => Rejected
        /\ \A k \in DOMAIN comments :
              /\ comments[k].proposal_id \in DOMAIN proposals
              /\ Outsider(c, proposals[comments[k].proposal_id].dao_id)
              /\ ( \/ \E t \in CommentContents : update_comment(c, k, t)
                   \/ \E d \in Ids : like_comment(c, k, d)
                   \/ delete_comment(c, k) )
              => Rejected
      ]_vars

\* C18: comment_on_post naming a proposal id that is not stored fails with
\* NotFound, creating no comment and consuming no id; naming a stored proposal
\* of whose organization the caller is not part, it fails with NotAMember,
\* again changing nothing.
C18_CommentErrors ==
    [][last'.op = "comment_on_post" =>
       \A c \in Principals, p \in Ids, t \in CommentContents :
        comment_on_post(c, p, t) =>
          /\ p \notin DOMAIN proposals
                => last'.result = "NotFound" /\ UNCHANGED stores
          /\ p \in DOMAIN proposals /\ ~IsMemberOf(c, proposals[p].dao_id)
                => last'.result = "NotAMember" /\ UNCHANGED stores
      ]_vars

\* C19: in every state every id in the proposals list of a stored
\* organization is the id of a stored proposal whose dao_id is that
\* organization's id, and is in the list once.
C19_ListedProposalsExist ==
    \A d \in DOMAIN daos :
        /\ NoRepeat(daos[d].proposals)
        /\ \A i \in 1..Len(daos[d].proposals) :
              /\ daos[d].proposals[i] \in DOMAIN proposals
              /\ proposals[daos[d].proposals[i]].dao_id = d

\* C20: in every state the proposal_id of every stored comment is the id of
\* a stored proposal (deleting an organization removes its proposals and with
\* them every comment attached to them).
C20_CommentsHaveProposal ==
    \A k \in DOMAIN comments : comments[k].proposal_id \in DOMAIN proposals

\* C21: in every state no stored comment has its author in its likes and no
\* identity is in a comment's likes more than once, whatever organization ids
\* the callers of like_comment passed.
C21_LikesExclusive ==
    \A k \in DOMAIN comments :
        /\ ~InList(comments[k].likes, comments[k].author)
        /\ NoRepeat(comments[k].likes)

\* a like has just been accepted from an identity that is not part of the
\* organization of the comment's proposal (it named another organization)
C21_Witness ==
    /\ last.op = "like_comment"
    /\ last.result = "Ok"
    /\ last.value.id \in DOMAIN comments
    /\ comments[last.value.id] = last.value
    /\ last.value.proposal_id \in DOMAIN proposals
    /\ Outsider(last.value.likes[Len(last.value.likes)],
                proposals[last.value.proposal_id].dao_id)

\* the values of is_approved a successful end_proposal_vote can store for a
\* proposal, and the condition every proposal is in once end_proposal_vote
\* has succeeded on it: its deadline has passed and is_approved is the value
\* computed from its vote lists
EndVoteFlags(proposal) ==
    {t.value > 0 : t \in {x \in total_votes(proposal) : ~x.panic}}
Finalized(id) ==
    /\ time > proposals[id].deadline
    /\ EndVoteFlags(proposals[id]) = {proposals[id].is_approved}

\* C22: a successful end_proposal_vote leaves the proposal finalized, and
\* from then on, while the proposal stays stored, every step leaves it
\* finalized with the same upvotes, downvotes and is_approved (so a later
\* successful end_proposal_vote stores the same is_approved), no upvote or
\* downvote on it succeeds and no update_proposal on it succeeds or changes
\* its title, details or amount_requested.
C22_NoWayBack ==
    [][\A id \in DOMAIN proposals :
        /\ last'.op = "end_proposal_vote" /\ last'.result = "Ok"
            /\ (\E c \in Principals : end_proposal_vote(c, id))
              => id \in DOMAIN proposals' /\ Finalized(id)'
        /\ Finalized(id) /\ id \in DOMAIN proposals'
              => /\ Finalized(id)'
                 /\ proposals'[id].upvotes = proposals[id].upvotes
                 /\ proposals'[id].downvotes = proposals[id].downvotes
                 /\ proposals'[id].is_approved = proposals[id].is_approved
                 /\ proposals'[id].deadline = proposals[id].deadline
                 /\ proposals'[id].title = proposals[id].title
                 /\ proposals'[id].details = proposals[id].details
                 /\ proposals'[id].amount_requested = proposals[id].amount_requested
        /\ Finalized(id) /\ last'.op \in {"upvote", "downvote", "update_proposal"}
            /\ (\E c \in Principals :
                   \/ upvote(c, id)
                   \/ downvote(c, id)
                   \/ \E pl \in ProposalPayloads : update_proposal(c, id, pl))
              => IsErr(last'.result)
      ]_vars

\* an update of the one stored proposal, which an earlier end_proposal_vote
\* had approved, has just been turned away with DeadlineExceeded
C22_Witness ==
    /\ last.op = "update_proposal"
    /\ last.result = "DeadlineExceeded"
    /\ \E id \in DOMAIN proposals :
          /\ DOMAIN proposals = {id}
          /\ proposals[id].is_approved
          /\ Finalized(id)

\* C23: a successful add_proposal stores exactly one new proposal, under the
\* id it hands out, with owner = caller, empty upvotes, downvotes and
\* comments, is_approved = FALSE, created_at = now and deadline = created_at
\* + one week, leaves every other proposal as it was and appends the id to
\* the organization's proposals; and in every state every stored proposal
\* has deadline = created_at + one week, no step changing either field.
C23_AddProposal ==
    [][ /\ last'.op = "add_proposal" /\ last'.result = "Ok" =>
             \A c \in Principals, d \in Ids, pl \in ProposalPayloads :
               add_proposal(c, d, pl) =>
                 /\ id_counter \notin DOMAIN proposals
                 /\ DOMAIN proposals' = (DOMAIN proposals) \cup {id_counter}
                 /\ \A p \in DOMAIN proposals : proposals'[p] = proposals[p]
                 /\ proposals'[id_counter] =
                       [id |-> id_counter, dao_id |-> d, title |-> pl.title,
                        details |-> pl.details,
                        amount_requested |-> pl.amount_requested,
                        owner |-> c, upvotes |-> <<>>, downvotes |-> <<>>,
                        comments |-> <<>>, is_approved |-> FALSE,
                        created_at |-> time, deadline |-> time + Week]
                 /\ last'.value = proposals'[id_counter]
                 /\ d \in DOMAIN daos /\ d \in DOMAIN daos'
                 /\ daos'[d] = [daos[d] EXCEPT !.proposals = Append(@, id_counter)]
        /\ \A p \in DOMAIN proposals' :
              proposals'[p].deadline = proposals'[p].created_at + Week
        /\ \A p \in (DOMAIN proposals) \cap (DOMAIN proposals') :
              /\ proposals'[p].created_at = proposals[p].created_at
              /\ proposals'[p].deadline = proposals[p].deadline
      ]_vars

\* a second proposal has just been added to an organization, after the clock
\* had advanced
C23_Witness ==
    /\ last.op = "add_proposal"
    /\ last.result = "Ok"
    /\ last.value.created_at >= 1
    /\ last.value.dao_id \in DOMAIN daos
    /\ Len(daos[last.value.dao_id].proposals) = 2
    /\ daos[last.value.dao_id].proposals[2] = last.value.id

\* C24: in every state reached from the empty canister the members list of
\* every stored organization is empty, and the membership check on a stored
\* organization passes for an identity exactly when it is the owner.
C24_NoMembers ==
    \A d \in DOMAIN daos :
        /\ daos[d].members = <<>>
        /\ \A c \in Principals : _is_user_part_of_dao(c, d) <=> (daos[d].owner = c)

\* an identity has just been refused a stored proposal whose organization is
\* stored: it failed the membership check
C24_Witness ==
    /\ last.op = "get_proposal"
    /\ last.result = "NotAMember"
    /\ DOMAIN proposals # {}
    /\ \A p \in DOMAIN proposals : proposals[p].dao_id \in DOMAIN daos

\* C25: a create sets owner/author to the creating caller, and no step
\* changes the owner of an organization, the owner or dao_id of a proposal or
\* the author or proposal_id of a comment that is stored before and after it,
\* update_dao, update_proposal and update_comment included.
C25_OwnersKept ==
    [][ /\ last'.op = "create_dao" =>
             \A c \in Principals, pl \in DaoPayloads :
               create_dao(c, pl) => daos'[id_counter].owner = c
        /\ last'.op = "add_proposal" /\ last'.result = "Ok" =>
             \A c \in Principals, d \in Ids, pl \in ProposalPayloads :
               add_proposal(c, d, pl) =>
                 proposals'[id_counter].owner = c /\ proposals'[id_counter].dao_id = d
        /\ last'.op = "comment_on_post" /\ last'.result = "Ok" =>
             \A c \in Principals, p \in Ids, t \in CommentContents :
               comment_on_post(c, p, t) =>
                 comments'[id_counter].author = c /\ comments'[id_counter].proposal_id = p
        /\ \A d \in (DOMAIN daos) \cap (DOMAIN daos') :
              daos'[d].owner = daos[d].owner
        /\ \A p \in (DOMAIN proposals) \cap (DOMAIN proposals') :
              /\ proposals'[p].owner = proposals[p].owner
              /\ proposals'[p].dao_id = proposals[p].dao_id
        /\ \A k \in (DOMAIN comments) \cap (DOMAIN comments') :
              /\ comments'[k].author = comments[k].author
              /\ comments'[k].proposal_id = comments[k].proposal_id
      ]_vars

\* an organization has just been updated by its owner and is stored with the
\* new name
C25_Witness ==
    /\ last.op = "update_dao"
    /\ last.result = "Ok"
    /\ last.value.name = "n2"
    /\ last.value.id \in DOMAIN daos
    /\ daos[last.value.id] = last.value
    /\ Len(last.value.proposals) >= 1

====
